---- MODULE Spec2Model ----
(***************************************************************************)
(* Ski planner: a four-node LangGraph workflow (weather, resort, gear,     *)
(* planner) behind two entry points (planTrip, getDetailedPlan) and a      *)
(* Fastify server (GET /health, POST /invocations).                        *)
(*                                                                         *)
(* Texts are TLA+ strings; a template literal is a concatenation.          *)
(* A request (an entry-point call or an HTTP request) is a slot r \in Runs; *)
(* a step of the model runs a handler from one await of the model call to  *)
(* the next, which is where Node.js can interleave two requests.           *)
(***************************************************************************)
EXTENDS Integers, Sequences, FiniteSets, TLC

\* Number of request slots (concurrent or sequential requests observed).
MaxRuns == 2

\* Number of fragments a prompt handed to parsePrompt is put together from.
MaxFragments == 2

\* Number of termination signals (SIGTERM, SIGINT) the process is sent.
MaxSignals == 2

\* Number of files in the routes directory.
MaxFiles == 2

Runs == 1..MaxRuns

VARIABLES
    kind,          \* kind[r]: which operation slot r is running
    req,           \* req[r]: the arguments / the HTTP request body of r
    pc,            \* pc[r]: "idle", the node whose model call r awaits, "done", "failed"
    st,            \* st[r]: the workflow state of r's app.invoke
    calls,         \* calls[r]: the model calls r issued, in order
    out,           \* out[r]: what the caller of r got (settled promise / HTTP reply)
    startedAfter,  \* startedAfter[r]: the slots whose workflow had completed when r
                   \* arrived; for a request served without a workflow, also the
                   \* slots whose workflow had failed
    promptFragments, \* the fragments of the text parsePrompt was last applied to
    parseResult,   \* what parsePrompt returned for it
    process,       \* the server process: its phase, its exit code (-1 while it
                   \* runs), which call of the server's lifecycle failed, the
                   \* state of the server and the number of signals received
    routes         \* createServer's loading of the routes: the directory, the
                   \* route files still to load, the files registered, the log

vars == <<kind, req, pc, st, calls, out, startedAfter, promptFragments, parseResult,
          process, routes>>

(***************************************************************************)
(* Strings                                                                 *)
(***************************************************************************)
At(s, i) == SubSeq(s, i, i)

LOWER == "abcdefghijklmnopqrstuvwxyz"
UPPER == "ABCDEFGHIJKLMNOPQRSTUVWXYZ"

IsLetter(c) == \E i \in 1..Len(LOWER) : c = At(LOWER, i) \/ c = At(UPPER, i)

\* \s of a JavaScript regular expression and the white space trim() removes,
\* over the characters the prompts of the model use.
IsSpace(c) == c \in {" ", "\t", "\n"}

\* The characters `.` does not match.
IsLineTerminator(c) == c = "\n"

LowerChar(c) ==
    IF \E i \in 1..Len(UPPER) : c = At(UPPER, i)
    THEN At(LOWER, CHOOSE i \in 1..Len(UPPER) : c = At(UPPER, i))
    ELSE c

RECURSIVE toLowerCase(_)
toLowerCase(s) ==
    IF Len(s) = 0 THEN ""
    ELSE LowerChar(At(s, 1)) \o toLowerCase(SubSeq(s, 2, Len(s)))

\* s.startsWith-like test used by the matchers: w occurs in s at position i.
OccursAt(s, i, w) ==
    /\ i >= 1
    /\ i + Len(w) - 1 <= Len(s)
    /\ SubSeq(s, i, i + Len(w) - 1) = w

includes(s, w) == \E i \in 1..(Len(s) + 1) : OccursAt(s, i, w)

trim(s) ==
    LET keep == {i \in 1..Len(s) : ~IsSpace(At(s, i))}
    IN  IF keep = {} THEN ""
        ELSE SubSeq(s, CHOOSE i \in keep : \A j \in keep : i <= j,
                       CHOOSE i \in keep : \A j \in keep : j <= i)

(***************************************************************************)
(* The workflow state (SkiPlannerState) and its reducers                   *)
(***************************************************************************)
Channels == {"messages", "location", "skillLevel", "weatherInfo",
             "resortRecommendations", "gearSuggestions", "finalPlan"}

\* default: () => [] for messages, () => '' for every other channel
ChannelDefault(ch) == IF ch = "messages" THEN <<>> ELSE ""

\* A mutated reducer: keeps the current value when there is one (x ?? y).
ReducerKeepFirst(ch, x, y) == IF ch = "messages" THEN x \o y ELSE x

\* reducer: (x, y) => x.concat(y) for messages, (x, y) => y ?? x otherwise.
\* An update y is only passed for the channels a node or the input names.
Reducer(ch, x, y) == IF ch = "messages" THEN x \o y ELSE y

\* The state after an update (a partial state) is merged into state s.
ApplyUpdate(s, update) ==
    [ch \in Channels |->
        IF ch \in DOMAIN update THEN Reducer(ch, s[ch], update[ch]) ELSE s[ch]]

DefaultState == [ch \in Channels |-> ChannelDefault(ch)]

(***************************************************************************)
(* The model call.  llm.invoke is an external service: a text for the two  *)
(* messages it is given, or a failure.  The text is modelled as a reply    *)
(* that quotes its input, so that two calls get the same text exactly when *)
(* they were given the same messages; whether a call fails is left open.   *)
(***************************************************************************)
SystemMessage(content) == [type |-> "system", content |-> content]
HumanMessage(content) == [type |-> "human", content |-> content]
AIMessage(content) == [type |-> "ai", content |-> content]

llmInvoke(messages) ==
    AIMessage("reply(" \o messages[1].content \o " || " \o messages[2].content \o ")")

\* A line break inside the template literals of the nodes.
NL == "\n        "

(***************************************************************************)
(* The four nodes.  For each: the messages it sends, and the partial state *)
(* it returns for a response.                                              *)
(***************************************************************************)
weatherSystemMessage ==
    SystemMessage("You are a weather analysis expert for ski planning. " \o NL
        \o "Analyze weather conditions and provide recommendations for skiing based on the location."
        \o NL \o "Focus on snow conditions, temperature, wind, and visibility."
        \o NL \o "Keep your response concise and actionable.")

weatherHumanMessage(state) ==
    HumanMessage("Analyze the weather for skiing at: " \o state.location \o ". " \o NL
        \o "Consider the skill level: " \o state.skillLevel \o "." \o NL
        \o "Provide weather insights and safety recommendations.")

weatherAgent(state, response) ==
    [weatherInfo |-> response.content,
     messages |-> <<weatherHumanMessage(state), response>>]

resortSystemMessage ==
    SystemMessage("You are a ski resort expert. Recommend the best ski resorts based on location, "
        \o NL \o "skill level, and weather conditions. Consider factors like terrain variety, "
        \o NL \o "lift systems, amenities, and value for money. Provide 2-3 specific recommendations.")

resortHumanMessage(state) ==
    HumanMessage("Recommend ski resorts for:" \o NL
        \o "Location: " \o state.location \o NL
        \o "Skill Level: " \o state.skillLevel \o NL
        \o "Weather Info: " \o state.weatherInfo \o NL
        \o NL \o "Provide specific resort names with brief explanations.")

resortAgent(state, response) ==
    [resortRecommendations |-> response.content,
     messages |-> <<resortHumanMessage(state), response>>]

gearSystemMessage ==
    SystemMessage("You are a ski gear expert. Recommend appropriate ski equipment and clothing "
        \o NL \o "based on weather conditions, skill level, and resort type. Include safety gear,"
        \o NL \o "skis/snowboard, boots, clothing layers, and accessories.")

\* A mutated gear instruction: it names the location as well.
gearHumanMessageWithLocation(state) ==
    HumanMessage("Recommend ski gear for:" \o NL
        \o "Location: " \o state.location \o NL
        \o "Skill Level: " \o state.skillLevel \o NL
        \o "Weather: " \o state.weatherInfo \o NL
        \o "Resorts: " \o state.resortRecommendations \o NL
        \o NL \o "Provide a categorized gear list with explanations.")

gearHumanMessage(state) ==
    HumanMessage("Recommend ski gear for:" \o NL
        \o "Skill Level: " \o state.skillLevel \o NL
        \o "Weather: " \o state.weatherInfo \o NL
        \o "Resorts: " \o state.resortRecommendations \o NL
        \o NL \o "Provide a categorized gear list with explanations.")

\* A mutated gear agent: it writes the weather field as well.
gearAgentAlsoWeather(state, response) ==
    [gearSuggestions |-> response.content,
     weatherInfo |-> response.content,
     messages |-> <<gearHumanMessage(state), response>>]

gearAgent(state, response) ==
    [gearSuggestions |-> response.content,
     messages |-> <<gearHumanMessage(state), response>>]

plannerSystemMessage ==
    SystemMessage("You are a ski trip planning coordinator. Create a comprehensive, actionable "
        \o NL \o "ski plan that synthesizes weather analysis, resort recommendations, and gear "
        \o NL \o "suggestions into a cohesive itinerary. Include timing, priorities, and practical tips.")

plannerHumanMessage(state) ==
    HumanMessage("Create a comprehensive ski plan using:" \o NL
        \o NL \o "Location: " \o state.location
        \o NL \o "Skill Level: " \o state.skillLevel \o NL
        \o NL \o "Weather Analysis: " \o state.weatherInfo \o NL
        \o NL \o "Resort Recommendations: " \o state.resortRecommendations \o NL
        \o NL \o "Gear Suggestions: " \o state.gearSuggestions \o NL
        \o NL \o "Provide a structured plan with priorities and actionable steps.")

\* A mutated planner agent: it records its system message as well.
plannerAgentRecordsSystem(state, response) ==
    [finalPlan |-> response.content,
     messages |-> <<plannerSystemMessage, plannerHumanMessage(state), response>>]

plannerAgent(state, response) ==
    [finalPlan |-> response.content,
     messages |-> <<plannerHumanMessage(state), response>>]

Nodes == {"weather_agent", "resort_agent", "gear_agent", "planner_agent"}

\* The messages node n passes to llm.invoke in state s.
NodeMessages(n, s) ==
    CASE n = "weather_agent" -> <<weatherSystemMessage, weatherHumanMessage(s)>>
      [] n = "resort_agent"  -> <<resortSystemMessage, resortHumanMessage(s)>>
      [] n = "gear_agent"    -> <<gearSystemMessage, gearHumanMessage(s)>>
      [] n = "planner_agent" -> <<plannerSystemMessage, plannerHumanMessage(s)>>

\* The partial state node n returns in state s for a response.
NodeUpdate(n, s, response) ==
    CASE n = "weather_agent" -> weatherAgent(s, response)
      [] n = "resort_agent"  -> resortAgent(s, response)
      [] n = "gear_agent"    -> gearAgent(s, response)
      [] n = "planner_agent" -> plannerAgent(s, response)

\* A mutated graph: the first two edges lead to the wrong nodes.
createSkiPlannerWorkflowSwapped ==
    [n \in {"__start__"} \cup Nodes |->
        CASE n = "__start__"     -> "resort_agent"
          [] n = "resort_agent"  -> "weather_agent"
          [] n = "weather_agent" -> "gear_agent"
          [] n = "gear_agent"    -> "planner_agent"
          [] n = "planner_agent" -> "__end__"]

\* createSkiPlannerWorkflow: the edges of the graph, source node to target node.
createSkiPlannerWorkflow ==
    [n \in {"__start__"} \cup Nodes |->
        CASE n = "__start__"     -> "weather_agent"
          [] n = "weather_agent" -> "resort_agent"
          [] n = "resort_agent"  -> "gear_agent"
          [] n = "gear_agent"    -> "planner_agent"
          [] n = "planner_agent" -> "__end__"]

\* A mutated invoke: the channels start from the state another invocation left.
InvokeInputShared(location, skillLevel) ==
    LET others == {q \in Runs : pc[q] \in Nodes \cup {"done"}}
        base == IF others = {} THEN DefaultState
                ELSE st[CHOOSE q \in others : \A p \in others : q <= p]
    IN  [ch \in Channels |->
            IF ch = "location" THEN location
            ELSE IF ch = "skillLevel" THEN skillLevel
            ELSE base[ch]]

\* app.invoke({location, skillLevel}): fresh channels at their defaults, with
\* the input merged in by the reducers.
InvokeInput(location, skillLevel) ==
    ApplyUpdate(DefaultState, [location |-> location, skillLevel |-> skillLevel])

\* getDetailedSkiPlan's return value for the final state of the graph.
SkiPlanningResult(result) ==
    [location |-> result.location,
     skillLevel |-> result.skillLevel,
     weatherInfo |-> result.weatherInfo,
     resortRecommendations |-> result.resortRecommendations,
     gearSuggestions |-> result.gearSuggestions,
     finalPlan |-> result.finalPlan]

(***************************************************************************)
(* parsePrompt: the three location patterns and the skill-level keywords.  *)
(* A pattern is matched the way a backtracking engine matches it: the      *)
(* leftmost start, alternatives in their order, a greedy quantifier from   *)
(* its longest repetition down, a lazy one from its shortest up.           *)
(***************************************************************************)
Min(S) == CHOOSE x \in S : \A y \in S : x <= y
Max(S) == CHOOSE x \in S : \A y \in S : y <= x

\* [a-zA-Z\s]
IsLocationChar(c) == IsLetter(c) \/ IsSpace(c)

\* The number of characters of s from position j up to the first of `stops`.
RunUpTo(stops, s, j) ==
    IF stops = {} THEN Len(s) + 1 - j ELSE Min(stops) - j

\* \s* at j: the number of white-space characters from j on.
SpaceRun(s, j) == RunUpTo({t \in j..Len(s) : ~IsSpace(At(s, t))}, s, j)

\* [a-zA-Z\s]* at j
LocationRun(s, j) == RunUpTo({t \in j..Len(s) : ~IsLocationChar(At(s, t))}, s, j)

\* .* at j
DotRun(s, j) == RunUpTo({t \in j..Len(s) : IsLineTerminator(At(s, t))}, s, j)

\* match is null
NoMatch == [index |-> 0, capture |-> ""]

\* (?:at|in|to|near)
LocationWords == <<"at", "in", "to", "near">>

\* (?:\s|$|,|\.|for|with) at position e
LocationEnd(s, e) ==
    \/ e = Len(s) + 1
    \/ e <= Len(s) /\ (IsSpace(At(s, e)) \/ At(s, e) \in {",", "."})
    \/ OccursAt(s, e, "for")
    \/ OccursAt(s, e, "with")

\* ([a-zA-Z\s]+?) at c followed by the end of the first pattern: the length of
\* the capture, 0 when there is none.
LazyLocation(s, c) ==
    LET ns == {n \in 1..LocationRun(s, c) : LocationEnd(s, c + n)}
    IN  IF ns = {} THEN 0 ELSE Min(ns)

\* \s+([a-zA-Z\s]+?)(?:\s|$|,|\.|for|with) at j: the numbers of white-space
\* characters \s+ can take.
SpacesThenLazyLocation(s, j) ==
    {k \in 1..SpaceRun(s, j) : LazyLocation(s, j + k) > 0}

\* /(?:at|in|to|near)\s+([a-zA-Z\s]+?)(?:\s|$|,|\.|for|with)/
MatchPattern1(s) ==
    LET hit(i, a) == /\ OccursAt(s, i, LocationWords[a])
                     /\ SpacesThenLazyLocation(s, i + Len(LocationWords[a])) # {}
        starts == {i \in 1..Len(s) : \E a \in DOMAIN LocationWords : hit(i, a)}
    IN  IF starts = {} THEN NoMatch
        ELSE LET i == Min(starts)
                 a == Min({b \in DOMAIN LocationWords : hit(i, b)})
                 j == i + Len(LocationWords[a])
                 k == Max(SpacesThenLazyLocation(s, j))
             IN  [index |-> i,
                  capture |-> SubSeq(s, j + k, j + k + LazyLocation(s, j + k) - 1)]

\* (?:ski|resort|mountain)
TerrainWords == <<"ski", "resort", "mountain">>

\* \s+(?:ski|resort|mountain) at j of s, ignoring case: low is s in lower case
SpacesThenTerrain(low, j) ==
    \E k \in 1..SpaceRun(low, j) :
        \E a \in DOMAIN TerrainWords : OccursAt(low, j + k, TerrainWords[a])

\* /([a-zA-Z\s]+?)\s+(?:ski|resort|mountain)/i
MatchPattern2(s) ==
    LET low == toLowerCase(s)
        lens(i) == {n \in 1..LocationRun(s, i) : SpacesThenTerrain(low, i + n)}
        starts == {i \in 1..Len(s) : lens(i) # {}}
    IN  IF starts = {} THEN NoMatch
        ELSE LET i == Min(starts)
             IN  [index |-> i, capture |-> SubSeq(s, i, i + Min(lens(i)) - 1)]

\* \s+([a-zA-Z\s]+) at j: the numbers of white-space characters \s+ can take.
SpacesThenGreedyLocation(s, j) ==
    {k \in 1..SpaceRun(s, j) : LocationRun(s, j + k) >= 1}

\* /planning.*?(?:at|in|to|near)\s+([a-zA-Z\s]+)/i
MatchPattern3(s) ==
    LET low == toLowerCase(s)
        hit(q, a) == /\ OccursAt(low, q, LocationWords[a])
                     /\ SpacesThenGreedyLocation(s, q + Len(LocationWords[a])) # {}
        \* the lengths .*? can take after "planning" at i
        gaps(i) == {d \in 0..DotRun(s, i + Len("planning")) :
                        \E a \in DOMAIN LocationWords : hit(i + Len("planning") + d, a)}
        starts == {i \in 1..Len(s) : OccursAt(low, i, "planning") /\ gaps(i) # {}}
    IN  IF starts = {} THEN NoMatch
        ELSE LET i == Min(starts)
                 q == i + Len("planning") + Min(gaps(i))
                 a == Min({b \in DOMAIN LocationWords : hit(q, b)})
                 j == q + Len(LocationWords[a])
                 k == Max(SpacesThenGreedyLocation(s, j))
             IN  [index |-> i,
                  capture |-> SubSeq(s, j + k, j + k + LocationRun(s, j + k) - 1)]

\* A mutated array of patterns: the last pattern is tried first.
locationPatternsReversed(s) == <<MatchPattern3(s), MatchPattern2(s), MatchPattern1(s)>>

\* locationPatterns, in the order of the array
locationPatterns(s) == <<MatchPattern1(s), MatchPattern2(s), MatchPattern3(s)>>

parseLocation(prompt) ==
    LET matches == locationPatterns(prompt)
        found == {p \in DOMAIN matches :
                    matches[p] # NoMatch /\ matches[p].capture # ""}
    IN  IF found = {} THEN "general area"
        ELSE trim(matches[Min(found)].capture)

\* A mutated skill-level test: the expert keywords are looked for first.
parseSkillLevelExpertFirst(prompt) ==
    LET lowerPrompt == toLowerCase(prompt)
    IN  IF \/ includes(lowerPrompt, "expert")
           \/ includes(lowerPrompt, "advanced")
           \/ includes(lowerPrompt, "professional")
        THEN "expert"
        ELSE IF \/ includes(lowerPrompt, "beginner")
                \/ includes(lowerPrompt, "new")
                \/ includes(lowerPrompt, "first time")
        THEN "beginner"
        ELSE "intermediate"

\* A mutated skill-level test: the prompt has to be the keyword itself.
parseSkillLevelExact(prompt) ==
    LET lowerPrompt == toLowerCase(prompt)
    IN  IF lowerPrompt \in {"beginner", "new", "first time"} THEN "beginner"
        ELSE IF lowerPrompt \in {"expert", "advanced", "professional"} THEN "expert"
        ELSE "intermediate"

parseSkillLevel(prompt) ==
    LET lowerPrompt == toLowerCase(prompt)
    IN  IF \/ includes(lowerPrompt, "beginner")
           \/ includes(lowerPrompt, "new")
           \/ includes(lowerPrompt, "first time")
        THEN "beginner"
        ELSE IF \/ includes(lowerPrompt, "expert")
                \/ includes(lowerPrompt, "advanced")
                \/ includes(lowerPrompt, "professional")
        THEN "expert"
        ELSE IF includes(lowerPrompt, "intermediate") \/ includes(lowerPrompt, "intermediate")
        THEN "intermediate"
        ELSE "intermediate"

parsePrompt(prompt) ==
    [location |-> parseLocation(prompt), skillLevel |-> parseSkillLevel(prompt)]

(***************************************************************************)
(* Outcomes of awaited calls: a value returned or an error thrown.         *)
(***************************************************************************)
Returned(v) == [ok |-> TRUE, value |-> v]
Thrown(e) == [ok |-> FALSE, value |-> e]

\* What a caller holds: nothing yet, a settled promise, or an HTTP reply.
Pending == [type |-> "pending"]
Resolved(tag, v) == [type |-> "resolved", tag |-> tag, value |-> v]
Rejected(e) == [type |-> "rejected", tag |-> "error", value |-> e]
Reply(code, body) == [type |-> "reply", code |-> code, body |-> body]

\* A mutated planSkiTrip: it returns the first stage's text.
planSkiTripWeather(invoked) ==
    IF invoked.ok THEN Returned(invoked.value.weatherInfo) ELSE Thrown(invoked.value)

\* planSkiTrip: app.invoke's final state gives result.finalPlan; a rejection
\* of app.invoke is not caught.
planSkiTrip(invoked) ==
    IF invoked.ok THEN Returned(invoked.value.finalPlan) ELSE Thrown(invoked.value)

\* getDetailedSkiPlan, likewise, gives the six fields of the final state.
getDetailedSkiPlan(invoked) ==
    IF invoked.ok THEN Returned(SkiPlanningResult(invoked.value)) ELSE Thrown(invoked.value)

\* loggerUtils.timeAsync: logs, then returns fn's result or rethrows its error.
timeAsync(outcome) ==
    IF outcome.ok THEN Returned(outcome.value) ELSE Thrown(outcome.value)

FallbackPlan ==
    "Unable to generate ski plan. Please check your AWS Bedrock API key and region settings."

\* A mutated planTrip: the catch block is missing.
planTripUncaught(invoked) ==
    LET plan == timeAsync(planSkiTrip(invoked))
    IN  IF plan.ok THEN Resolved("string", plan.value) ELSE Rejected(plan.value)

\* planTrip: the plan, or the fallback sentence when anything was thrown.
planTrip(invoked) ==
    LET plan == timeAsync(planSkiTrip(invoked))
    IN  IF plan.ok THEN Resolved("string", plan.value)
        ELSE Resolved("string", FallbackPlan)

\* getDetailedPlan: the detailed result, or null when anything was thrown.
getDetailedPlan(invoked) ==
    LET plan == timeAsync(getDetailedSkiPlan(invoked))
    IN  IF plan.ok THEN Resolved("object", plan.value)
        ELSE Resolved("null", "null")

(***************************************************************************)
(* runInteractiveSkiPlanner.  What it logs is a sequence of [level,        *)
(* message]; the environment variable is "" when it is not set.            *)
(***************************************************************************)
Log(level, message) == [level |-> level, message |-> message]

\* A mutated test of the credential: it is taken to be there.
credentialMissingNever(token) == FALSE

\* !process.env.AWS_BEARER_TOKEN_BEDROCK
credentialMissing(token) == token = ""

\* What is logged before the early return.
MissingCredentialLog ==
    <<Log("warn", "AWS Bedrock API key not found. Set AWS_BEARER_TOKEN_BEDROCK environment variable to use LangGraph with Bedrock.")>>

\* runInteractiveSkiPlanner from its await of getDetailedPlan on: the four
\* texts of the plan are logged, or an error when the plan is null.
runInteractiveSkiPlanner(invoked) ==
    LET detailedPlan == getDetailedPlan(invoked)
    IN  IF detailedPlan.tag # "null"
        THEN Resolved("void",
                <<Log("info", detailedPlan.value.weatherInfo),
                  Log("info", detailedPlan.value.resortRecommendations),
                  Log("info", detailedPlan.value.gearSuggestions),
                  Log("info", detailedPlan.value.finalPlan)>>)
        ELSE Resolved("void", <<Log("error", "Failed to generate ski plan.")>>)

(***************************************************************************)
(* The HTTP routes.  A JSON value is [type, value]; a request body is a    *)
(* record of JSON values.                                                  *)
(***************************************************************************)
JsonString(v) == [type |-> "string", value |-> v]
JsonObject == [type |-> "object", value |-> "{}"]

\* The body schema of the route: required: ['prompt'], prompt: {type: 'string'}.
\* The result is the validation error, or "" when the body is valid.
validateBody(body) ==
    IF "prompt" \notin DOMAIN body THEN "body must have required property 'prompt'"
    ELSE IF body.prompt.type # "string" THEN "body/prompt must be string"
    ELSE ""

\* The error Fastify raises for a body the schema rejects.
ValidationError(message) == [statusCode |-> 400, message |-> message]

\* setErrorHandler's handler: error.statusCode || 500, and a body of
\* {error, statusCode, timestamp, path}.
errorHandler(error, url) ==
    LET statusCode == IF error.statusCode # 0 THEN error.statusCode ELSE 500
        message == IF statusCode >= 500 THEN "Internal Server Error" ELSE error.message
    IN  Reply(statusCode,
              [error |-> message, statusCode |-> statusCode,
               timestamp |-> "<now>", path |-> url])

\* The response schemas of the route: the properties a reply with the given
\* status code is required to have (200, 400 and 500 alike).
responseRequired(code) ==
    IF code \in {200, 400, 500} THEN {"response", "status"} ELSE {}

\* The reply the framework sends in place of an error reply that the response
\* schema of its status code cannot serialize.
SerializationFailureReply ==
    Reply(500, [statusCode |-> 500, code |-> "FST_ERR_FAILED_ERROR_SERIALIZATION",
                error |-> "Internal Server Error",
                message |-> "Failed to serialize an error"])

\* reply.status(code).send(body) in the error handler: the replies that can go
\* out.  A body with the properties its response schema requires goes out as
\* sent.  For one without them the outcome is the framework's: the body as
\* sent, or the framework's own reply for a serialization failure.
send(reply) ==
    IF responseRequired(reply.code) \subseteq DOMAIN reply.body
    THEN {reply}
    ELSE {reply, SerializationFailureReply}

\* !prompt || typeof prompt !== 'string'
InvalidPrompt(prompt) == prompt.type # "string" \/ prompt.value = ""

InvalidPromptReply ==
    Reply(400, [response |-> "Invalid request: prompt is required and must be a string",
                status |-> "error"])

\* A mutated handler end: nothing is ever replied.
invocationsReplyNever(invoked) == Pending

\* invocationsHandler from the await of getDetailedSkiPlan on: the 200 reply
\* built from the planning result, or the 500 reply of the catch block.
invocationsReply(invoked) ==
    LET planningResult == getDetailedSkiPlan(invoked)
    IN  IF planningResult.ok
        THEN Reply(200,
                [response |-> planningResult.value.finalPlan,
                 status |-> "success",
                 metadata |->
                    [location |-> planningResult.value.location,
                     skillLevel |-> planningResult.value.skillLevel,
                     weatherInfo |-> planningResult.value.weatherInfo,
                     resortRecommendations |-> planningResult.value.resortRecommendations,
                     gearSuggestions |-> planningResult.value.gearSuggestions]])
        ELSE Reply(500,
                [response |-> "Internal server error occurred while processing your ski planning request",
                 status |-> "error"])

\* A mutated health handler: it reports the failures of the workflow.
healthHandlerDegraded ==
    IF \E q \in Runs : pc[q] = "failed"
    THEN Reply(503, [status |-> "error", timestamp |-> "<now>", uptime |-> "<uptime>",
                     version |-> "1.0.0", environment |-> "development"])
    ELSE Reply(200, [status |-> "ok", timestamp |-> "<now>", uptime |-> "<uptime>",
                     version |-> "1.0.0", environment |-> "development"])

\* healthHandler: a fixed payload with status 200.
healthHandler ==
    Reply(200, [status |-> "ok", timestamp |-> "<now>", uptime |-> "<uptime>",
                version |-> "1.0.0", environment |-> "development"])

(***************************************************************************)
(* createServer and loadRoutes.  A file of the routes directory is [name,  *)
(* module]; module tells what importing and registering it does: it        *)
(* exports a "default" function, only a "register" function, no function   *)
(* ("none"), its import fails ("importFails"), or the registration of its  *)
(* default export fails ("registerFails").  The directory is "missing",    *)
(* "unreadable" (readdirSync throws) or "ok".                              *)
(***************************************************************************)
endsWith(file, suffix) ==
    /\ Len(file) >= Len(suffix)
    /\ SubSeq(file, Len(file) - Len(suffix) + 1, Len(file)) = suffix

\* The two filters of loadRoutes on the names readdirSync returns.
isRouteFile(file) ==
    /\ endsWith(file, ".ts") \/ endsWith(file, ".js")
    /\ ~endsWith(file, ".test.ts") /\ ~endsWith(file, ".test.js")

routeFiles(files) == SelectSeq(files, LAMBDA f : isRouteFile(f.name))

RouteLog(level, message, file) == [level |-> level, message |-> message, file |-> file]

\* createServer up to its call of loadRoutes.
serverCreated(dir) ==
    [phase |-> "created", dir |-> dir, pending |-> <<>>, registered |-> <<>>, log |-> <<>>]

\* loadRoutes up to its loop.
loadRoutesBegin(server) ==
    CASE server.dir.state = "missing" ->
           [server EXCEPT !.phase = "loaded",
               !.log = Append(@, RouteLog("warn", "Routes directory not found", ""))]
      [] server.dir.state = "unreadable" ->
           [server EXCEPT !.phase = "loaded",
               !.log = Append(@, RouteLog("error", "Failed to load routes directory", ""))]
      [] OTHER ->
           [server EXCEPT !.phase = "loading",
               !.pending = routeFiles(server.dir.files),
               !.log = Append(@, RouteLog("info", "Loading route files", ""))]

\* A mutated body of the loop: a file that fails to load ends the loop.
loadRouteStopsAtFailure(server, file) ==
    CASE file.module \in {"default", "register"} ->
           [server EXCEPT !.pending = Tail(@),
               !.registered = Append(@, file.name),
               !.log = Append(@, RouteLog("info", "Loaded route", file.name))]
      [] file.module = "none" ->
           [server EXCEPT !.pending = Tail(@),
               !.log = Append(@, RouteLog("warn", "does not export a valid route function",
                                          file.name))]
      [] OTHER ->
           [server EXCEPT !.pending = <<>>,
               !.log = Append(@, RouteLog("error", "Failed to load route file", file.name))]

\* The body of the loop of loadRoutes for one route file.
loadRoute(server, file) ==
    CASE file.module \in {"default", "register"} ->
           [server EXCEPT !.pending = Tail(@),
               !.registered = Append(@, file.name),
               !.log = Append(@, RouteLog("info", "Loaded route", file.name))]
      [] file.module = "none" ->
           [server EXCEPT !.pending = Tail(@),
               !.log = Append(@, RouteLog("warn", "does not export a valid route function",
                                          file.name))]
      [] OTHER ->
           [server EXCEPT !.pending = Tail(@),
               !.log = Append(@, RouteLog("error", "Failed to load route file", file.name))]

RECURSIVE loadRoutesLoop(_)
loadRoutesLoop(server) ==
    IF server.pending = <<>> THEN server
    ELSE loadRoutesLoop(loadRoute(server, Head(server.pending)))

loadRoutes(server) ==
    LET begun == loadRoutesBegin(server)
    IN  IF begun.phase = "loading" THEN loadRoutesLoop(begun) ELSE begun

createServer(dir) == [loadRoutes(serverCreated(dir)) EXCEPT !.phase = "returned"]

\* The routes directory of the repository.
RepositoryRoutes ==
    [state |-> "ok",
     files |-> << [name |-> "health.ts", module |-> "default"],
                  [name |-> "invocations.ts", module |-> "default"] >>]

(***************************************************************************)
(* The server process.  process.exit(code) ends it; exitCode is -1 while   *)
(* it runs.  failure records which awaited call of the lifecycle failed;   *)
(* server is "open" until server.close is first called, then "closing",    *)
(* and "closed" or "closeFailed" once the closing has ended; signals       *)
(* counts the calls of gracefulShutdown.                                   *)
(***************************************************************************)
processRuns(phase) ==
    [phase |-> phase, exitCode |-> -1, failure |-> "none", server |-> "open", signals |-> 0]
processExit(code) ==
    [phase |-> "exited", exitCode |-> code, failure |-> "none", server |-> "open",
     signals |-> 0]

\* startServer after its await of server.listen: the server listens, or the
\* catch block calls process.exit(1).
startServer(listened) ==
    IF listened.ok THEN processRuns("listening") ELSE processExit(1)

\* A mutated stopServer: an error of server.close is only logged.
stopServerLogsOnly(closed) == processRuns("stopped")

\* stopServer after its await of server.close: it returns, or the catch block
\* calls process.exit(1).
stopServer(closed) ==
    IF closed.ok THEN processRuns("stopped") ELSE processExit(1)

\* gracefulShutdown after its await of stopServer: process.exit(0), unless
\* stopServer has ended the process already.
gracefulShutdown(closed) ==
    LET stopped == stopServer(closed)
    IN  IF stopped.phase = "exited" THEN stopped ELSE processExit(0)

(***************************************************************************)
(* The inputs the requests of the model are drawn from.                    *)
(***************************************************************************)
\* sampleLocation and sampleSkillLevel of runInteractiveSkiPlanner
TripArgs ==
    {[location |-> "Colorado, USA", skillLevel |-> "intermediate"]}

\* The example of the route's schema description, and a second prompt
Prompts ==
    {"Plan a ski trip to Aspen for beginners",
     "expert skiing near Vail"}

\* parsePrompt(p) for each prompt of the model, computed once.
ParsedPrompts == [p \in Prompts |-> parsePrompt(p)]

Bodies ==
    {[prompt |-> JsonString(p)] : p \in Prompts}
    \cup {[prompt |-> JsonString("")]}
    \cup {[prompt |-> JsonObject]}
    \cup {[input |-> JsonString("Plan a ski trip to Aspen for beginners")]}

\* The fragments the prompts handed to parsePrompt on its own are put together
\* from: location phrases for each of the three patterns, the skill keywords
\* in both cases, a separator, and a location word followed by blanks only.
Fragments ==
    {"to Aspen", "TO Vail ", " resort", "planning ", " Highlands", ", ", "to  ",
     "new", "Expert", "first time", "beginner", "ADVANCED", "professional"}

\* The text of a prompt: its fragments one after the other.
RECURSIVE Text(_)
Text(fragments) ==
    IF fragments = <<>> THEN ""
    ELSE fragments[1] \o Text(Tail(fragments))

\* parsePrompt has not been applied yet.
NotParsed == [location |-> "", skillLevel |-> ""]

(***************************************************************************)
(* Initial state: no request has arrived.                                  *)
(***************************************************************************)
Init ==
    /\ kind = [r \in Runs |-> "none"]
    /\ req = [r \in Runs |-> [location |-> "", skillLevel |-> ""]]
    /\ pc = [r \in Runs |-> "idle"]
    /\ st = [r \in Runs |-> DefaultState]
    /\ calls = [r \in Runs |-> <<>>]
    /\ out = [r \in Runs |-> Pending]
    /\ startedAfter = [r \in Runs |-> {}]
    /\ promptFragments = <<>>
    /\ parseResult = NotParsed
    /\ process = startServer(Returned("listening"))
    /\ routes = createServer(RepositoryRoutes)

\* The slots whose workflow has completed, and those whose workflow has failed.
Completed == {r \in Runs : pc[r] = "done"}
Failed == {r \in Runs : pc[r] = "failed"}

\* Slot r starts a workflow: workflow.compile(), app.invoke({location, skillLevel})
\* up to the first node's await of llm.invoke.
StartWorkflow(r, k, request, location, skillLevel) ==
    LET state == InvokeInput(location, skillLevel)
        node == createSkiPlannerWorkflow["__start__"]
    IN  /\ pc[r] = "idle"
        /\ kind' = [kind EXCEPT ![r] = k]
        /\ req' = [req EXCEPT ![r] = request]
        /\ st' = [st EXCEPT ![r] = state]
        /\ pc' = [pc EXCEPT ![r] = node]
        /\ calls' = [calls EXCEPT ![r] = <<[node |-> node, messages |-> NodeMessages(node, state)]>>]
        /\ startedAfter' = [startedAfter EXCEPT ![r] = Completed]
        /\ UNCHANGED <<out, promptFragments, parseResult, process, routes>>

\* Slot r serves a request that needs no workflow: the reply is sent at once.
ReplyAtOnce(r, k, request, reply) ==
    /\ pc[r] = "idle"
    /\ kind' = [kind EXCEPT ![r] = k]
    /\ req' = [req EXCEPT ![r] = request]
    /\ pc' = [pc EXCEPT ![r] = "replied"]
    /\ out' = [out EXCEPT ![r] = reply]
    /\ startedAfter' = [startedAfter EXCEPT ![r] = Completed \cup Failed]
    /\ UNCHANGED <<st, calls, promptFragments, parseResult, process, routes>>

\* planTrip(location, skillLevel) is called.
planTripCall(r, args) ==
    StartWorkflow(r, "planTrip", args, args.location, args.skillLevel)

\* getDetailedPlan(location, skillLevel) is called.
getDetailedPlanCall(r, args) ==
    StartWorkflow(r, "getDetailedPlan", args, args.location, args.skillLevel)

\* POST /invocations with a body the route's schema rejects: the handler is
\* not run and the error handler answers.
postInvocationsRejected(r, body) ==
    /\ validateBody(body) # ""
    /\ \E reply \in send(errorHandler(ValidationError(validateBody(body)), "/invocations")) :
          ReplyAtOnce(r, "invocations", body, reply)

\* A mutated handler: the prompt is tested after the workflow was started.
postInvocationsInvalidAfterCall(r, body) ==
    /\ validateBody(body) = ""
    /\ InvalidPrompt(body.prompt)
    /\ pc[r] = "idle"
    /\ kind' = [kind EXCEPT ![r] = "invocations"]
    /\ req' = [req EXCEPT ![r] = body]
    /\ pc' = [pc EXCEPT ![r] = "replied"]
    /\ out' = [out EXCEPT ![r] = InvalidPromptReply]
    /\ calls' = [calls EXCEPT ![r] =
          <<[node |-> "weather_agent",
             messages |-> NodeMessages("weather_agent",
                                       InvokeInput("general area", "intermediate"))]>>]
    /\ startedAfter' = [startedAfter EXCEPT ![r] = Completed \cup Failed]
    /\ UNCHANGED <<st, promptFragments, parseResult, process, routes>>

\* POST /invocations, invocationsHandler with a prompt it refuses.
postInvocationsInvalid(r, body) ==
    /\ validateBody(body) = ""
    /\ InvalidPrompt(body.prompt)
    /\ ReplyAtOnce(r, "invocations", body, InvalidPromptReply)

\* POST /invocations, invocationsHandler up to its await of getDetailedSkiPlan.
postInvocationsAccepted(r, body) ==
    /\ validateBody(body) = ""
    /\ ~InvalidPrompt(body.prompt)
    /\ LET parsed == ParsedPrompts[body.prompt.value]
       IN  StartWorkflow(r, "invocations", body, parsed.location, parsed.skillLevel)

\* GET /health
getHealth(r) ==
    ReplyAtOnce(r, "health", [location |-> "", skillLevel |-> ""], healthHandler)

\* What the caller of slot r gets when app.invoke settles.
Settle(k, invoked) ==
    CASE k = "planTrip"        -> planTrip(invoked)
      [] k = "getDetailedPlan" -> getDetailedPlan(invoked)
      [] k = "invocations"     -> invocationsReply(invoked)
      [] k = "interactive"     -> runInteractiveSkiPlanner(invoked)

\* The model call slot r awaits returns: the node's partial state is merged,
\* and the graph goes on to the next node's model call or ends.
llmResolves(r) ==
    /\ pc[r] \in Nodes
    /\ LET node == pc[r]
           response == llmInvoke(calls[r][Len(calls[r])].messages)
           state == ApplyUpdate(st[r], NodeUpdate(node, st[r], response))
           next == createSkiPlannerWorkflow[node]
       IN  /\ st' = [st EXCEPT ![r] = state]
           /\ IF next = "__end__"
              THEN /\ pc' = [pc EXCEPT ![r] = "done"]
                   /\ out' = [out EXCEPT ![r] = Settle(kind[r], Returned(state))]
                   /\ UNCHANGED calls
              ELSE /\ pc' = [pc EXCEPT ![r] = next]
                   /\ calls' = [calls EXCEPT ![r] =
                        Append(@, [node |-> next, messages |-> NodeMessages(next, state)])]
                   /\ UNCHANGED out
    /\ UNCHANGED <<kind, req, startedAfter, promptFragments, parseResult, process, routes>>

\* A mutated failure: the model call is issued once more.
llmRejectsRetries(r) ==
    /\ pc[r] \in Nodes
    /\ Len(calls[r]) <= Cardinality(Nodes)
    /\ calls' = [calls EXCEPT ![r] = Append(@, @[Len(@)])]
    /\ UNCHANGED <<kind, req, pc, st, out, startedAfter, promptFragments, parseResult,
                   process, routes>>

\* A mutated failure: the caller is handed the state the workflow had reached.
llmRejectsReturnsPartial(r) ==
    /\ pc[r] \in Nodes
    /\ pc' = [pc EXCEPT ![r] = "failed"]
    /\ out' = [out EXCEPT ![r] = Settle(kind[r], Returned(st[r]))]
    /\ UNCHANGED <<kind, req, st, calls, startedAfter, promptFragments, parseResult,
                   process, routes>>

\* The model call slot r awaits fails: the error leaves the node, timeAsync
\* and app.invoke, and reaches the caller of the workflow.
llmRejects(r) ==
    /\ pc[r] \in Nodes
    /\ pc' = [pc EXCEPT ![r] = "failed"]
    /\ out' = [out EXCEPT ![r] = Settle(kind[r], timeAsync(Thrown("GenerationError")))]
    /\ UNCHANGED <<kind, req, st, calls, startedAfter, promptFragments, parseResult,
                   process, routes>>

Next ==
    \/ \E r \in Runs, args \in TripArgs : planTripCall(r, args)
    \/ \E r \in Runs, args \in TripArgs : getDetailedPlanCall(r, args)
    \/ \E r \in Runs, body \in Bodies : postInvocationsRejected(r, body)
    \/ \E r \in Runs, body \in Bodies : postInvocationsInvalid(r, body)
    \/ \E r \in Runs, body \in Bodies : postInvocationsAccepted(r, body)
    \/ \E r \in Runs : getHealth(r)
    \/ \E r \in Runs : llmResolves(r)
    \/ \E r \in Runs : llmRejects(r)

Spec == Init /\ [][Next]_vars

\* The same behaviours under the assumption that every model call that is
\* awaited eventually returns or fails.
LiveSpec ==
    /\ Init /\ [][Next]_vars
    /\ \A r \in Runs : WF_vars(llmResolves(r) \/ llmRejects(r))

(***************************************************************************)
(* The command-line mode: runInteractiveSkiPlanner with and without the    *)
(* credential in the environment, next to direct calls of the entry points.*)
(***************************************************************************)
Tokens == {"", "test-bedrock-api-key-mock"}

\* The sample trip and the environment of a run of runInteractiveSkiPlanner.
InteractiveRequest(token) ==
    [location |-> "Colorado, USA", skillLevel |-> "intermediate", token |-> token]

\* runInteractiveSkiPlanner without the credential: the warning and the return.
runInteractiveWithoutCredential(r, token) ==
    /\ credentialMissing(token)
    /\ ReplyAtOnce(r, "interactive", InteractiveRequest(token),
                   Resolved("void", MissingCredentialLog))

\* runInteractiveSkiPlanner with the credential, up to the first model call of
\* getDetailedPlan(sampleLocation, sampleSkillLevel).
runInteractiveWithCredential(r, token) ==
    /\ ~credentialMissing(token)
    /\ StartWorkflow(r, "interactive", InteractiveRequest(token),
                     InteractiveRequest(token).location,
                     InteractiveRequest(token).skillLevel)

CliNext ==
    \/ \E r \in Runs, token \in Tokens : runInteractiveWithoutCredential(r, token)
    \/ \E r \in Runs, token \in Tokens : runInteractiveWithCredential(r, token)
    \/ \E r \in Runs, args \in TripArgs : planTripCall(r, args)
    \/ \E r \in Runs, args \in TripArgs : getDetailedPlanCall(r, args)
    \/ \E r \in Runs : llmResolves(r)
    \/ \E r \in Runs : llmRejects(r)

CliSpec == Init /\ [][CliNext]_vars

(***************************************************************************)
(* The server from its start to its exit: server.listen and server.close   *)
(* succeed or fail, a signal asks for the shutdown, and the HTTP requests  *)
(* are served in between.  New requests arrive while the server listens;   *)
(* requests in progress go on while it closes; nothing runs after the exit.*)
(***************************************************************************)
ServerInit ==
    /\ kind = [r \in Runs |-> "none"]
    /\ req = [r \in Runs |-> [location |-> "", skillLevel |-> ""]]
    /\ pc = [r \in Runs |-> "idle"]
    /\ st = [r \in Runs |-> DefaultState]
    /\ calls = [r \in Runs |-> <<>>]
    /\ out = [r \in Runs |-> Pending]
    /\ startedAfter = [r \in Runs |-> {}]
    /\ promptFragments = <<>>
    /\ parseResult = NotParsed
    /\ process = processRuns("starting")
    /\ routes = createServer(RepositoryRoutes)

requestVars ==
    <<kind, req, pc, st, calls, out, startedAfter, promptFragments, parseResult, routes>>

\* await server.listen({port, host}) resolves.
listenResolves ==
    /\ process.phase = "starting"
    /\ process' = startServer(Returned("listening"))
    /\ UNCHANGED requestVars

\* await server.listen({port, host}) rejects: the port cannot be bound.
listenRejects ==
    /\ process.phase = "starting"
    /\ process' = [startServer(Thrown("EADDRINUSE")) EXCEPT !.failure = "listen"]
    /\ UNCHANGED requestVars

\* A mutated shutdown: process.exit(0) without awaiting stopServer.
signalReceivedExitsAtOnce ==
    /\ process.phase \in {"listening", "closing"}
    /\ process.signals < MaxSignals
    /\ process' = [processExit(0) EXCEPT
                      !.server = "closing",
                      !.signals = process.signals + 1]
    /\ UNCHANGED requestVars

\* SIGTERM or SIGINT, for the first time or again: gracefulShutdown up to its
\* await of server.close.
signalReceived ==
    /\ process.phase \in {"listening", "closing"}
    /\ process.signals < MaxSignals
    /\ process' = [processRuns("closing") EXCEPT
                      !.server = IF process.server = "open" THEN "closing"
                                 ELSE process.server,
                      !.signals = process.signals + 1]
    /\ UNCHANGED requestVars

\* The closing of the server ends: the server is closed.
serverCloses ==
    /\ process.phase = "closing" /\ process.server = "closing"
    /\ process' = [process EXCEPT !.server = "closed"]
    /\ UNCHANGED requestVars

\* The closing of the server ends: it has failed.
serverCloseFails ==
    /\ process.phase = "closing" /\ process.server = "closing"
    /\ process' = [process EXCEPT !.server = "closeFailed"]
    /\ UNCHANGED requestVars

\* An await of server.close() resolves: the server is closed.
closeResolves ==
    /\ process.phase = "closing" /\ process.server = "closed"
    /\ process' = [gracefulShutdown(Returned("closed")) EXCEPT
                      !.server = process.server, !.signals = process.signals]
    /\ UNCHANGED requestVars

\* An await of server.close() rejects: the closing has failed, or this call of
\* close was refused.
closeRejects ==
    /\ process.phase = "closing" /\ process.server # "closed"
    /\ process' = [gracefulShutdown(Thrown("CloseError")) EXCEPT
                      !.failure = "close",
                      !.server = process.server, !.signals = process.signals]
    /\ UNCHANGED requestVars

Listening == process.phase = "listening"
Serving == process.phase \in {"listening", "closing"}

ServerNext ==
    \/ listenResolves
    \/ listenRejects
    \/ signalReceived
    \/ serverCloses
    \/ serverCloseFails
    \/ closeResolves
    \/ closeRejects
    \/ Listening /\ \E r \in Runs, body \in Bodies : postInvocationsRejected(r, body)
    \/ Listening /\ \E r \in Runs, body \in Bodies : postInvocationsInvalid(r, body)
    \/ Listening /\ \E r \in Runs, body \in Bodies : postInvocationsAccepted(r, body)
    \/ Listening /\ \E r \in Runs : getHealth(r)
    \/ Serving /\ \E r \in Runs : llmResolves(r)
    \/ Serving /\ \E r \in Runs : llmRejects(r)

ServerSpec == ServerInit /\ [][ServerNext]_vars

(***************************************************************************)
(* parsePrompt on its own: the prompt grows by a fragment and parsePrompt  *)
(* is applied to the new text.                                             *)
(***************************************************************************)
parsePromptCall(fragment) ==
    /\ Len(promptFragments) < MaxFragments
    /\ promptFragments' = Append(promptFragments, fragment)
    /\ parseResult' = parsePrompt(Text(promptFragments'))
    /\ UNCHANGED <<kind, req, pc, st, calls, out, startedAfter, process, routes>>

ParseNext == \E fragment \in Fragments : parsePromptCall(fragment)

ParseSpec == Init /\ [][ParseNext]_vars

(***************************************************************************)
(* createServer on its own, on the routes directories below.               *)
(***************************************************************************)
FileNames == {"health.ts", "invocations.js", "health.test.ts", "plan.test.js", "README.md"}

Modules == {"default", "register", "none", "importFails", "registerFails"}

RECURSIVE FileLists(_)
FileLists(n) ==
    IF n = 0 THEN {<<>>}
    ELSE LET shorter == FileLists(n - 1)
         IN  shorter \cup
             {Append(files, [name |-> name, module |-> module]) :
                 files \in {fs \in shorter : Len(fs) = n - 1},
                 name \in FileNames, module \in Modules}

\* readdirSync returns every name once.
Directories ==
    {[state |-> "missing", files |-> <<>>], [state |-> "unreadable", files |-> <<>>]}
    \cup {[state |-> "ok", files |-> files] :
              files \in {fs \in FileLists(MaxFiles) :
                            \A i, j \in 1..Len(fs) : fs[i].name = fs[j].name => i = j}}

LoadInit ==
    /\ kind = [r \in Runs |-> "none"]
    /\ req = [r \in Runs |-> [location |-> "", skillLevel |-> ""]]
    /\ pc = [r \in Runs |-> "idle"]
    /\ st = [r \in Runs |-> DefaultState]
    /\ calls = [r \in Runs |-> <<>>]
    /\ out = [r \in Runs |-> Pending]
    /\ startedAfter = [r \in Runs |-> {}]
    /\ promptFragments = <<>>
    /\ parseResult = NotParsed
    /\ process = processRuns("starting")
    /\ \E dir \in Directories : routes = serverCreated(dir)

loadVars ==
    <<kind, req, pc, st, calls, out, startedAfter, promptFragments, parseResult, process>>

\* createServer calls loadRoutes, which runs up to its loop.
loadRoutesCall ==
    /\ routes.phase = "created"
    /\ routes' = loadRoutesBegin(routes)
    /\ UNCHANGED loadVars

\* One turn of the loop of loadRoutes.
loadRouteFile ==
    /\ routes.phase = "loading" /\ routes.pending # <<>>
    /\ routes' = loadRoute(routes, Head(routes.pending))
    /\ UNCHANGED loadVars

\* loadRoutes returns, and createServer returns the server.
createServerReturns ==
    /\ \/ routes.phase = "loaded"
       \/ routes.phase = "loading" /\ routes.pending = <<>>
    /\ routes' = [routes EXCEPT !.phase = "returned"]
    /\ UNCHANGED loadVars

LoadNext ==
    \/ loadRoutesCall
    \/ loadRouteFile
    \/ createServerReturns

LoadSpec == LoadInit /\ [][LoadNext]_vars

(***************************************************************************)
(* Properties                                                              *)
(***************************************************************************)
\* Slot r runs or has run a workflow.
InWorkflow(r) == pc[r] \in Nodes \cup {"done", "failed"}

\* The (location, skillLevel) slot r's workflow was started with.
WorkflowArgs(r) ==
    IF kind[r] = "invocations" THEN ParsedPrompts[req[r].prompt.value] ELSE req[r]

\* The nodes whose model call slot r has issued, in order.
CalledNodes(r) == [i \in 1..Len(calls[r]) |-> calls[r][i].node]

Called(r, n) == \E i \in 1..Len(calls[r]) : calls[r][i].node = n

StageOrder == <<"weather_agent", "resort_agent", "gear_agent", "planner_agent">>

\* C1: in every workflow the model calls are issued in the order weather,
\* resort, gear, planner; the resort call is issued only with weatherInfo set,
\* the gear call only with resortRecommendations set, and the planner call only
\* with weatherInfo, resortRecommendations and gearSuggestions all set.
C1_StageOrder ==
    \A r \in Runs :
        /\ CalledNodes(r) = SubSeq(StageOrder, 1, Len(calls[r]))
        /\ Called(r, "resort_agent") => st[r].weatherInfo # ""
        /\ Called(r, "gear_agent") => st[r].resortRecommendations # ""
        /\ Called(r, "planner_agent") =>
              /\ st[r].weatherInfo # ""
              /\ st[r].resortRecommendations # ""
              /\ st[r].gearSuggestions # ""

\* A workflow whose planner call is in flight, issued after three completed stages.
C1_Witness ==
    \E r \in Runs : pc[r] = "planner_agent" /\ Len(calls[r]) = 4

\* C2: when a model call fails, planTrip resolves to the fallback sentence and
\* getDetailedPlan resolves to null; neither rejects, and neither returns
\* anything built from the stages that had succeeded.
C2_FailureFallback ==
    \A r \in Runs :
        /\ kind[r] \in {"planTrip", "getDetailedPlan"} => out[r].type # "rejected"
        /\ (kind[r] = "planTrip" /\ pc[r] = "failed") =>
              out[r] = Resolved("string", FallbackPlan)
        /\ (kind[r] = "getDetailedPlan" /\ pc[r] = "failed") =>
              out[r] = Resolved("null", "null")

\* A planTrip and a getDetailedPlan that both failed after some stage had succeeded.
C2_Witness ==
    \E r, q \in Runs :
        /\ kind[r] = "planTrip" /\ pc[r] = "failed" /\ st[r].weatherInfo # ""
        /\ kind[q] = "getDetailedPlan" /\ pc[q] = "failed" /\ st[q].gearSuggestions # ""

\* C3: in every state of a workflow, location and skillLevel equal the
\* arguments, and the result of a successful getDetailedPlan carries them
\* unchanged.
C3_PassThrough ==
    \A r \in Runs :
        /\ InWorkflow(r) =>
              /\ st[r].location = WorkflowArgs(r).location
              /\ st[r].skillLevel = WorkflowArgs(r).skillLevel
        /\ (kind[r] = "getDetailedPlan" /\ pc[r] = "done") =>
              /\ out[r].tag = "object"
              /\ out[r].value.location = req[r].location
              /\ out[r].value.skillLevel = req[r].skillLevel

\* A getDetailedPlan that completed for Colorado, USA.
C3_Witness ==
    \E r \in Runs :
        /\ kind[r] = "getDetailedPlan" /\ pc[r] = "done"
        /\ req[r].location = "Colorado, USA"
        /\ out[r].tag = "object"

\* The body carries a prompt invocationsHandler accepts.
ValidPrompt(body) ==
    /\ "prompt" \in DOMAIN body
    /\ body.prompt.type = "string"
    /\ body.prompt.value # ""

\* All four stages of slot r's workflow have completed.
AllStagesCompleted(r) ==
    /\ pc[r] = "done"
    /\ st[r].weatherInfo # "" /\ st[r].resortRecommendations # ""
    /\ st[r].gearSuggestions # "" /\ st[r].finalPlan # ""

\* C4: POST /invocations with a valid prompt is answered 200 with status
\* "success" exactly when all four stages completed, and 500 with status
\* "error" when the workflow failed; a malformed body is answered 400.
C4_StatusCodes ==
    \A r \in Runs :
        kind[r] = "invocations" =>
            /\ (ValidPrompt(req[r]) /\ pc[r] = "failed") =>
                  /\ out[r].type = "reply" /\ out[r].code = 500
                  /\ out[r].body.status = "error"
            /\ (ValidPrompt(req[r]) /\ AllStagesCompleted(r)) =>
                  /\ out[r].type = "reply" /\ out[r].code = 200
                  /\ out[r].body.status = "success"
            /\ (ValidPrompt(req[r]) /\ out[r].type = "reply" /\ out[r].code = 200) =>
                  AllStagesCompleted(r)
            /\ ~ValidPrompt(req[r]) =>
                  /\ out[r].type = "reply" /\ out[r].code = 400

\* C5: POST /invocations with a body without a prompt field is answered 400
\* with a body whose status field is "error".
C5_MissingPrompt ==
    \A r \in Runs :
        (kind[r] = "invocations" /\ "prompt" \notin DOMAIN req[r]) =>
            /\ out[r].type = "reply" /\ out[r].code = 400
            /\ "status" \in DOMAIN out[r].body
            /\ out[r].body.status = "error"

\* C6: every reply to a POST /invocations carries a status field that is
\* "success" or "error".
C6_StatusField ==
    \A r \in Runs :
        (kind[r] = "invocations" /\ out[r].type = "reply") =>
            /\ "status" \in DOMAIN out[r].body
            /\ out[r].body.status \in {"success", "error"}

\* C7: two workflows run one after the other with the same (location,
\* skillLevel) end with the same result and the same transcript, and their
\* callers get the same value: nothing of the first is visible to the second.
C7_Idempotent ==
    \A r, q \in Runs :
        (/\ r \in startedAfter[q]
         /\ pc[r] = "done" /\ pc[q] = "done"
         /\ WorkflowArgs(r) = WorkflowArgs(q)) =>
            /\ SkiPlanningResult(st[r]) = SkiPlanningResult(st[q])
            /\ st[r].messages = st[q].messages
            /\ kind[r] = kind[q] => out[r] = out[q]

\* Two getDetailedPlan calls with the same arguments, the second started after
\* the first had completed, both completed.
C7_Witness ==
    \E r, q \in Runs :
        /\ r \in startedAfter[q]
        /\ kind[r] = "getDetailedPlan" /\ kind[q] = "getDetailedPlan"
        /\ pc[r] = "done" /\ pc[q] = "done"
        /\ req[r] = req[q]

\* The state of a workflow that runs alone from fresh channels, after its
\* first n stages.
RECURSIVE AloneAfter(_, _, _)
AloneAfter(location, skillLevel, n) ==
    IF n = 0
    THEN [DefaultState EXCEPT !.location = location, !.skillLevel = skillLevel]
    ELSE LET state == AloneAfter(location, skillLevel, n - 1)
             node == StageOrder[n]
             response == llmInvoke(NodeMessages(node, state))
         IN  [state EXCEPT
                 ![CASE node = "weather_agent" -> "weatherInfo"
                     [] node = "resort_agent"  -> "resortRecommendations"
                     [] node = "gear_agent"    -> "gearSuggestions"
                     [] node = "planner_agent" -> "finalPlan"] = response.content,
                 !.messages = @ \o <<NodeMessages(node, state)[2], response>>]

\* The number of stages of slot r's workflow that have completed.
StagesCompleted(r) == IF pc[r] = "done" THEN Len(calls[r]) ELSE Len(calls[r]) - 1

\* C8: however the steps of the workflows interleave, the state of each
\* workflow (its fields and its transcript) is the one it has when it runs
\* alone, and its caller gets the value of the workflow run alone.
C8_Isolation ==
    \A r \in Runs :
        InWorkflow(r) =>
            LET alone == AloneAfter(WorkflowArgs(r).location, WorkflowArgs(r).skillLevel,
                                    StagesCompleted(r))
            IN  /\ st[r] = alone
                /\ pc[r] = "done" => out[r] = Settle(kind[r], Returned(alone))

\* Two workflows with different arguments that overlapped in time (neither
\* started after the other had completed), both completed.
C8_Witness ==
    \E r, q \in Runs :
        /\ r # q
        /\ pc[r] = "done" /\ pc[q] = "done"
        /\ r \notin startedAfter[q] /\ q \notin startedAfter[r]
        /\ WorkflowArgs(r) # WorkflowArgs(q)

\* C9: GET /health is answered 200 with status "ok", whatever the workflows do.
C9_HealthAlwaysOk ==
    \A r \in Runs :
        kind[r] = "health" =>
            /\ out[r].type = "reply" /\ out[r].code = 200
            /\ out[r].body.status = "ok"

\* A GET /health served after a workflow had failed.
C9_Witness ==
    \E r \in Runs :
        /\ kind[r] = "health" /\ out[r].type = "reply"
        /\ \E q \in startedAfter[r] : pc[q] = "failed"

\* C10: the 200 reply to a POST /invocations carries the workflow's finalPlan
\* as response, the location and skillLevel parsePrompt extracted (skillLevel
\* "beginner" for "Plan a ski trip to Aspen for beginners"), and the
\* workflow's weatherInfo, resortRecommendations and gearSuggestions.
C10_SuccessBody ==
    \A r \in Runs :
        (kind[r] = "invocations" /\ pc[r] = "done") =>
            /\ out[r].type = "reply" /\ out[r].code = 200
            /\ out[r].body.response = st[r].finalPlan
            /\ out[r].body.metadata.location = ParsedPrompts[req[r].prompt.value].location
            /\ out[r].body.metadata.skillLevel = ParsedPrompts[req[r].prompt.value].skillLevel
            /\ req[r].prompt.value = "Plan a ski trip to Aspen for beginners" =>
                  out[r].body.metadata.skillLevel = "beginner"
            /\ out[r].body.metadata.weatherInfo = st[r].weatherInfo
            /\ out[r].body.metadata.resortRecommendations = st[r].resortRecommendations
            /\ out[r].body.metadata.gearSuggestions = st[r].gearSuggestions

\* The 200 reply to "Plan a ski trip to Aspen for beginners".
C10_Witness ==
    \E r \in Runs :
        /\ kind[r] = "invocations" /\ pc[r] = "done"
        /\ req[r].prompt.value = "Plan a ski trip to Aspen for beginners"
        /\ out[r].code = 200
        /\ out[r].body.metadata.location = "Aspen"

(***************************************************************************)
(* Properties of parsePrompt                                               *)
(***************************************************************************)
BeginnerWords == {"beginner", "new", "first time"}
ExpertWords == {"expert", "advanced", "professional"}

\* The text contains one of the words, whatever the case of its letters.
ContainsAny(text, words) ==
    \E w \in words : includes(toLowerCase(text), w)

\* C11: the skill level parsePrompt returns is "beginner" if the text contains
\* "beginner", "new" or "first time" in any case, otherwise "expert" if it
\* contains "expert", "advanced" or "professional", otherwise "intermediate";
\* it is always one of the three.
C11_SkillLevel ==
    promptFragments # <<>> =>
        /\ parseResult.skillLevel \in {"beginner", "intermediate", "expert"}
        /\ parseResult.skillLevel =
              IF ContainsAny(Text(promptFragments), BeginnerWords) THEN "beginner"
              ELSE IF ContainsAny(Text(promptFragments), ExpertWords) THEN "expert"
              ELSE "intermediate"

\* A prompt with a beginner word and an expert word, one of them in capitals,
\* parsed as "beginner".
C11_Witness ==
    /\ promptFragments # <<>>
    /\ ContainsAny(Text(promptFragments), BeginnerWords)
    /\ ContainsAny(Text(promptFragments), ExpertWords)
    /\ Text(promptFragments) # toLowerCase(Text(promptFragments))
    /\ parseResult.skillLevel = "beginner"

\* C12: the location parsePrompt returns is the trimmed capture of the first
\* of the three patterns, in their listed order, that matches the text, and
\* "general area" when none matches.
C12_FirstPatternWins ==
    promptFragments # <<>> =>
        LET text == Text(promptFragments)
            m1 == MatchPattern1(text)
            m2 == MatchPattern2(text)
            m3 == MatchPattern3(text)
        IN  parseResult.location =
              IF m1 # NoMatch THEN trim(m1.capture)
              ELSE IF m2 # NoMatch THEN trim(m2.capture)
              ELSE IF m3 # NoMatch THEN trim(m3.capture)
              ELSE "general area"

\* A prompt the first and the second pattern both match, with different
\* captures, parsed to the capture of the first.
C12_Witness ==
    /\ promptFragments # <<>>
    /\ LET text == Text(promptFragments)
           m1 == MatchPattern1(text)
           m2 == MatchPattern2(text)
       IN  /\ m1 # NoMatch /\ m2 # NoMatch
           /\ trim(m1.capture) # trim(m2.capture)
           /\ parseResult.location = trim(m1.capture)

(***************************************************************************)
(* Properties of the entry points and of the workflow's stages             *)
(***************************************************************************)
PlanningResultFields ==
    {"location", "skillLevel", "weatherInfo", "resortRecommendations",
     "gearSuggestions", "finalPlan"}

\* C13: a successful planTrip returns the finalPlan of the result a successful
\* getDetailedPlan returns for the same arguments, and that result is the
\* final state of its workflow restricted to the six result fields (the
\* transcript is not part of it).
C13_PlanTripIsFinalPlan ==
    \A r, q \in Runs :
        /\ (kind[q] = "getDetailedPlan" /\ pc[q] = "done") =>
              /\ out[q].type = "resolved"
              /\ DOMAIN out[q].value = PlanningResultFields
              /\ \A f \in PlanningResultFields : out[q].value[f] = st[q][f]
        /\ (/\ kind[r] = "planTrip" /\ pc[r] = "done"
            /\ kind[q] = "getDetailedPlan" /\ pc[q] = "done"
            /\ req[r] = req[q]) =>
              /\ out[r].type = "resolved"
              /\ out[r].value = out[q].value.finalPlan

\* A planTrip and a getDetailedPlan with the same arguments, both successful,
\* the latter with a transcript of its own.
C13_Witness ==
    \E r, q \in Runs :
        /\ kind[r] = "planTrip" /\ pc[r] = "done"
        /\ kind[q] = "getDetailedPlan" /\ pc[q] = "done"
        /\ req[r] = req[q]
        /\ st[q].messages # <<>>
        /\ out[r].value # ""

(***************************************************************************)
(* Properties of the server process                                        *)
(***************************************************************************)
\* Some request was answered with an error or its workflow failed.
SomeRequestFailed ==
    \E r \in Runs :
        \/ pc[r] = "failed"
        \/ out[r].type = "reply" /\ out[r].code >= 400

C15_NoCredentialNoCall ==
    \A r \in Runs :
        (kind[r] = "interactive" /\ req[r].token = "") =>
            /\ calls[r] = <<>>
            /\ ~InWorkflow(r)
            /\ st[r] = DefaultState
            /\ out[r].type = "resolved"
            /\ \E i \in DOMAIN out[r].value : out[r].value[i].level = "warn"

\* One run without the credential has returned, and one with the credential
\* has issued model calls.
C15_Witness ==
    \E r, q \in Runs :
        /\ kind[r] = "interactive" /\ req[r].token = "" /\ out[r].type = "resolved"
        /\ kind[q] = "interactive" /\ req[q].token # "" /\ Len(calls[q]) >= 2

(***************************************************************************)
(* Properties of the stages                                                *)
(***************************************************************************)
\* The field each stage writes its text to.
StageField ==
    [n \in Nodes |->
        CASE n = "weather_agent" -> "weatherInfo"
          [] n = "resort_agent"  -> "resortRecommendations"
          [] n = "gear_agent"    -> "gearSuggestions"
          [] n = "planner_agent" -> "finalPlan"]

\* What the caller of a workflow gets when the workflow has thrown.
FailureOutcome(k) ==
    CASE k = "planTrip"        -> Resolved("string", FallbackPlan)
      [] k = "getDetailedPlan" -> Resolved("null", "null")
      [] k = "invocations"     ->
            Reply(500, [response |-> "Internal server error occurred while processing your ski planning request",
                        status |-> "error"])
      [] k = "interactive"     -> Resolved("void", <<Log("error", "Failed to generate ski plan.")>>)

\* C16: when the model call of stage k fails the workflow has failed for
\* good: the stages before k have written their fields and no stage from k on
\* has; no further model call is issued and nothing of the workflow changes
\* afterwards; the caller of the workflow gets its failure outcome, which
\* holds nothing of the partly filled state.
C16_AbortAtFirstFailure ==
    /\ [](\A r \in Runs :
            pc[r] = "failed" =>
                /\ Len(calls[r]) \in 1..Len(StageOrder)
                /\ \A i \in 1..Len(StageOrder) :
                      (st[r][StageField[StageOrder[i]]] # "") <=> (i < Len(calls[r]))
                /\ out[r] = FailureOutcome(kind[r]))
    /\ [][\A r \in Runs :
            pc[r] = "failed" =>
                /\ pc'[r] = pc[r] /\ calls'[r] = calls[r]
                /\ st'[r] = st[r] /\ out'[r] = out[r]]_vars

\* A workflow that failed at its third stage, after two stages had completed,
\* while another workflow went on to completion.
C16_Witness ==
    \E r, q \in Runs :
        /\ pc[r] = "failed" /\ Len(calls[r]) = 3
        /\ st[r].resortRecommendations # "" /\ st[r].gearSuggestions = ""
        /\ pc[q] = "done"

ContentFields == {"weatherInfo", "resortRecommendations", "gearSuggestions", "finalPlan"}

\* C17: the four content fields are empty until their own stage writes them:
\* a content field changes only in the step in which the model call of its
\* owning stage returns, only from the empty text, and no other field but
\* the transcript changes in that step; after a successful workflow all four
\* are written.
C17_SingleWriter ==
    /\ [](\A r \in Runs :
            /\ ~InWorkflow(r) => \A f \in ContentFields : st[r][f] = ""
            /\ pc[r] = "done" => \A f \in ContentFields : st[r][f] # "")
    /\ [][\A r \in Runs : \A n \in Nodes :
            st'[r][StageField[n]] # st[r][StageField[n]] =>
                /\ pc[r] = n
                /\ st[r][StageField[n]] = ""
                /\ \A f \in Channels \ {StageField[n], "messages"} :
                      st'[r][f] = st[r][f]]_vars

\* A completed workflow whose four content fields are four different texts.
C17_Witness ==
    \E r \in Runs :
        /\ pc[r] = "done"
        /\ Cardinality({st[r][f] : f \in ContentFields}) = 4

\* The fields the instruction of each stage is read from.
ReadSet ==
    [n \in Nodes |->
        CASE n = "weather_agent" -> {"location", "skillLevel"}
          [] n = "resort_agent"  -> {"location", "skillLevel", "weatherInfo"}
          [] n = "gear_agent"    -> {"skillLevel", "weatherInfo", "resortRecommendations"}
          [] n = "planner_agent" -> {"location", "skillLevel", "weatherInfo",
                                     "resortRecommendations", "gearSuggestions"}]

\* Other values a field can hold.
OtherValues(f) ==
    IF f = "messages" THEN {<<>>, <<HumanMessage("elsewhere"), AIMessage("elsewhere")>>}
    ELSE {"", "elsewhere"}

\* C18: the user instruction a stage sends is the same for two states that
\* agree on the stage's read set: the instruction sent from the state of the
\* workflow is the instruction of that state with a field outside the read
\* set, or the transcript, replaced by another value.
C18_InstructionReadsOnlyReadSet ==
    \A r \in Runs :
        pc[r] \in Nodes =>
            \A f \in Channels \ ReadSet[pc[r]] : \A v \in OtherValues(f) :
                NodeMessages(pc[r], [st[r] EXCEPT ![f] = v])[2]
                    = calls[r][Len(calls[r])].messages[2]

\* The gear stage has issued its call in a state with a location and a
\* transcript, and its instruction is that of the same state at another
\* location with an empty transcript.
C18_Witness ==
    \E r \in Runs :
        /\ pc[r] = "gear_agent"
        /\ st[r].location \notin OtherValues("location")
        /\ st[r].messages # <<>>
        /\ calls[r][Len(calls[r])].messages[2] =
              NodeMessages("gear_agent",
                  [st[r] EXCEPT !.location = "elsewhere", !.messages = <<>>])[2]

\* C19: in a workflow every stage issues at most one model call, so at most
\* four in all; a successful workflow has issued exactly four, one per stage;
\* a failed workflow has issued the failed call once.
C19_OneCallPerStage ==
    \A r \in Runs :
        /\ Len(calls[r]) <= 4
        /\ \A n \in Nodes :
              Cardinality({i \in DOMAIN calls[r] : calls[r][i].node = n}) <= 1
        /\ pc[r] = "done" =>
              /\ Len(calls[r]) = 4
              /\ \A n \in Nodes :
                    Cardinality({i \in DOMAIN calls[r] : calls[r][i].node = n}) = 1
        /\ pc[r] = "failed" => Len(calls[r]) = Cardinality({f \in ContentFields : st[r][f] # ""}) + 1

\* One workflow completed with four calls, another failed at its second call.
C19_Witness ==
    \E r, q \in Runs :
        /\ pc[r] = "done" /\ Len(calls[r]) = 4
        /\ pc[q] = "failed" /\ Len(calls[q]) = 2

\* s is a prefix of t.
IsPrefix(s, t) == Len(s) <= Len(t) /\ s = SubSeq(t, 1, Len(s))

\* C20: the transcript only grows: in every step the transcript before is a
\* prefix of the transcript after.  After k completed stages it holds 2k
\* messages: for each completed stage, in stage order, the stage's user
\* instruction and then the response; no system message is in it; it holds 8
\* messages after a successful workflow.
C20_TranscriptAppendOnly ==
    /\ [](\A r \in Runs :
            LET k == Cardinality({f \in ContentFields : st[r][f] # ""})
            IN  /\ Len(st[r].messages) = 2 * k
                /\ \A i \in 1..k :
                      /\ st[r].messages[2 * i - 1] = calls[r][i].messages[2]
                      /\ st[r].messages[2 * i - 1].type = "human"
                      /\ calls[r][i].node = StageOrder[i]
                      /\ st[r].messages[2 * i] = AIMessage(st[r][StageField[StageOrder[i]]])
                /\ pc[r] = "done" => Len(st[r].messages) = 8)
    /\ [][\A r \in Runs : IsPrefix(st[r].messages, st'[r].messages)]_vars

\* A completed workflow with 8 messages, and another with 4 after two stages.
C20_Witness ==
    \E r, q \in Runs :
        /\ pc[r] = "done" /\ Len(st[r].messages) = 8
        /\ pc[q] = "gear_agent" /\ Len(st[q].messages) = 4

(***************************************************************************)
(* Further properties of POST /invocations                                 *)
(***************************************************************************)
\* C21: a POST /invocations that is answered 400, or whose prompt is missing,
\* empty or not a string, starts no workflow: no model call is issued for it
\* and its workflow state is never set up.
C21_RejectedStartsNothing ==
    \A r \in Runs :
        (/\ kind[r] = "invocations"
         /\ \/ ~ValidPrompt(req[r])
            \/ out[r].type = "reply" /\ out[r].code = 400) =>
            /\ calls[r] = <<>>
            /\ ~InWorkflow(r)
            /\ st[r] = DefaultState

\* The handler has answered 400 for an empty prompt without a model call, and
\* another request has issued model calls.
C21_Witness ==
    \E r, q \in Runs :
        /\ kind[r] = "invocations" /\ out[r] = InvalidPromptReply /\ calls[r] = <<>>
        /\ kind[q] = "invocations" /\ Len(calls[q]) >= 1

\* C22: when every awaited model call eventually returns or fails, every
\* workflow eventually ends, completed or failed, having issued at most four
\* model calls, and every POST /invocations with a valid prompt is eventually
\* answered 200 or 500; a reply, once sent, is the only one.
C22_EveryRunEnds ==
    /\ \A r \in Runs :
          (pc[r] \in Nodes) ~>
              /\ pc[r] \in {"done", "failed"}
              /\ Len(calls[r]) <= 4
              /\ kind[r] = "invocations" =>
                    (out[r].type = "reply" /\ out[r].code \in {200, 500})
    /\ [](\A r \in Runs : Len(calls[r]) <= 4)
    /\ [][\A r \in Runs : out[r].type = "reply" => out'[r] = out[r]]_vars

\* One POST /invocations answered 200 after four model calls, another
\* answered 500.
C22_Witness ==
    \E r, q \in Runs :
        /\ kind[r] = "invocations" /\ out[r].type = "reply" /\ out[r].code = 200
        /\ Len(calls[r]) = 4
        /\ kind[q] = "invocations" /\ out[q].type = "reply" /\ out[q].code = 500

\* C23: the location parsePrompt returns is never the empty text.
C23_LocationNonEmpty ==
    promptFragments # <<>> => parseResult.location # ""

(***************************************************************************)
(* Further properties of the server process                                *)
(***************************************************************************)
\* C24: after a start that succeeded, whatever the number of signals, the
\* process exits with code 0 only when the closing of the server has
\* completed, never while it is pending, and its exit code is 1 when the
\* closing has failed.
C24_ExitAfterClose ==
    /\ (process.phase = "exited" /\ process.exitCode = 0) =>
          /\ process.server = "closed"
          /\ process.signals >= 1
    /\ (process.phase = "exited" /\ process.server \in {"closing", "closeFailed"}) =>
          process.exitCode = 1

\* The process has exited with code 0 after two signals, the server closed.
C24_Witness ==
    /\ process.phase = "exited" /\ process.exitCode = 0
    /\ process.signals = 2
    /\ process.server = "closed"

(***************************************************************************)
(* Properties of the loading of the routes                                 *)
(***************************************************************************)
\* The route files of the directory that loadRoutes has dealt with.
LoadedFiles ==
    LET all == routeFiles(routes.dir.files)
    IN  {all[i] : i \in 1..(Len(all) - Len(routes.pending))}

Range(seq) == {seq[i] : i \in 1..Len(seq)}

SkippedModules == {"none", "importFails", "registerFails"}

\* C25: a route file whose import or registration fails, or which exports no
\* function, is logged and not registered, and every other route file (not a
\* test file) that loadRoutes has dealt with is registered; when createServer
\* has returned it has dealt with every route file of the directory, and it
\* returns whatever the files do.
C25_FailedRouteSkipped ==
    /\ routes.phase \in {"loading", "returned"} =>
          \A f \in LoadedFiles :
              /\ f.module \in SkippedModules =>
                    /\ f.name \notin Range(routes.registered)
                    /\ \E l \in Range(routes.log) :
                          l.file = f.name /\ l.level \in {"warn", "error"}
              /\ f.module \notin SkippedModules => f.name \in Range(routes.registered)
    /\ routes.phase = "returned" =>
          /\ routes.pending = <<>>
          /\ \A i \in 1..Len(routes.dir.files) :
                LET f == routes.dir.files[i]
                IN  isRouteFile(f.name) /\ f.module \notin SkippedModules =>
                        f.name \in Range(routes.registered)
    /\ routes.phase \in {"created", "loading", "loaded", "returned"}

\* createServer has returned for a directory whose first route file failed to
\* load and whose second is registered.
C25_Witness ==
    /\ routes.phase = "returned"
    /\ routes.dir.state = "ok"
    /\ Len(routes.dir.files) = 2
    /\ isRouteFile(routes.dir.files[1].name)
    /\ routes.dir.files[1].module \in {"importFails", "registerFails"}
    /\ isRouteFile(routes.dir.files[2].name)
    /\ routes.registered = <<routes.dir.files[2].name>>

====
